---- MODULE Spec2Model ----
(***************************************************************************)
(* A model of react-sortable-hoc (Nuclino fork): the SortableContainer     *)
(* drag session (src/src/SortableContainer/index.js), the SortableElement  *)
(* item wrapper (src/unnamed/part_001) and the utilities                   *)
(* (src/unnamed/part_000).  The Manager (the registry the two share) is    *)
(* not among the sources; it is modelled from the specification, 4.1.      *)
(*                                                                         *)
(* Lengths are CSS pixels and integers.  Every extent of the fixtures is   *)
(* even, and the dragged element's extent divides acceleration * distance, *)
(* so the divisions of the source are exact in integer arithmetic.         *)
(***************************************************************************)
EXTENDS Integers, Sequences, FiniteSets, TLC

VARIABLES
  fixture,   \* the document: layout of the items, container box, pointer grid
  props,     \* this.props of the container
  state,     \* this.state of the container: sorting, isOrigin
  inst,      \* the instance fields of the container (this._touched, this.translate, ...)
  manager,   \* this.manager: refs (collection -> handles) and active
  dom,       \* the nodes (sortableInfo, style), the scroll position, the helpers in the body
  timers,    \* the pending timeouts: press-delay timers (FIFO) and the deferred cancel
  wrappers,  \* the SortableElement instances: mounted, props, this.node, this.ref
  emitted,   \* the calls of onSortEnd, oldest first
  hist,      \* history of the current gesture (bookkeeping of the properties)
  fault,     \* an exception escaped a handler ("" when none)
  moveCall   \* a call of arrayMove by the host: its arguments and what it returned

vars == <<fixture, props, state, inst, manager, dom, timers, wrappers, emitted, hist, fault,
          moveCall>>

(***************************************************************************)
(* Bounds of the exploration.                                              *)
(***************************************************************************)
MaxTimers == 2      \* press-delay timers pending at once
MaxTicks == 1       \* autoscroll ticks between two pointer moves
MaxEmitted == 1     \* commits recorded
MaxHelpers == 2     \* helper elements in the document at once
MaxRefs == 3        \* handles the item wrappers create (registry model)
MaxLen == 3         \* length of the arrays given to arrayMove

(***************************************************************************)
(* Values.                                                                 *)
(***************************************************************************)
\* JavaScript null / undefined for an index (sortableInfo.index is >= 0).
NullIdx == 0 - 1
\* No DOM node.
NoNode == 0 - 1

Abs(x) == IF x < 0 THEN 0 - x ELSE x
Max(a, b) == IF a > b THEN a ELSE b
\* x / 2 of the source; every halved length of the fixtures is even.
Half(x) == x \div 2
\* ToNumber(null) = 0: how a relational operator reads a null index.
Num(i) == IF i = NullIdx THEN 0 ELSE i

Zero2 == [x |-> 0, y |-> 0]
ZeroTL == [top |-> 0, left |-> 0]

RECURSIVE SumTo(_, _)
SumTo(s, k) == IF k = 0 THEN 0 ELSE s[k] + SumTo(s, k - 1)

(***************************************************************************)
(* utils: limit                                                            *)
(***************************************************************************)
limit(min, max, value) ==
  IF value < min THEN min
  ELSE IF value > max THEN max
  ELSE value

(***************************************************************************)
(* The document.  The items of collection 0 are laid out in index order:   *)
(* a row (axis x), a column (axis y, vertical margins collapse) or a       *)
(* grid of fx.cols columns (axis xy).  Node k, 0-based, is the element of  *)
(* the item with index k.                                                  *)
(***************************************************************************)
NodesOf(fx) == 0 .. (Len(fx.ext) - 1)

\* node.offsetWidth, node.offsetHeight
OffsetWidth(fx, k) == IF fx.layout = "column" THEN fx.cross ELSE fx.ext[k + 1]
OffsetHeight(fx, k) == IF fx.layout = "column" THEN fx.ext[k + 1] ELSE fx.cross

\* a getElementMargin that reads no margin
ElementMarginNone(fx) == [top |-> 0, right |-> 0, bottom |-> 0, left |-> 0]

\* getElementMargin(node): the same margin on the four sides
ElementMargin(fx) ==
  [top |-> fx.margin, right |-> fx.margin, bottom |-> fx.margin, left |-> fx.margin]

\* getEdgeOffset(node): offsetTop / offsetLeft summed up to the container
getEdgeOffset(fx, k) ==
  CASE fx.layout = "row" ->
         [top |-> fx.margin,
          left |-> fx.margin + SumTo(fx.ext, k) + k * 2 * fx.margin]
    [] fx.layout = "column" ->
         [top |-> fx.margin + SumTo(fx.ext, k) + k * fx.margin,
          left |-> fx.margin]
    [] OTHER ->
         [top |-> fx.margin + (k \div fx.cols) * (fx.cross + 2 * fx.margin),
          left |-> fx.margin + (k % fx.cols) * (fx.ext[k + 1] + 2 * fx.margin)]

\* this.container.getBoundingClientRect()
ContainerRect(fx) == fx.container

\* node.getBoundingClientRect(): the container is the scroll container
NodeRect(fx, scroll, k) ==
  [top |-> fx.container.top + getEdgeOffset(fx, k).top - scroll.top,
   left |-> fx.container.left + getEdgeOffset(fx, k).left - scroll.left]

\* window.pageXOffset / pageYOffset: the window itself is not scrolled
WindowScroll == ZeroTL

\* The scroll range of the scroll container: a browser clamps scrollTop and
\* scrollLeft to [0, scrollHeight - clientHeight] on assignment.
ClampScroll(fx, s) ==
  [top |-> limit(0, fx.maxScroll.top, s.top),
   left |-> limit(0, fx.maxScroll.left, s.left)]

(***************************************************************************)
(* arrayMove (part_000 1-11).  Arrays are sequences, position k of the     *)
(* source is element k + 1; "undefined" is the value push(undefined) adds. *)
(* The operator yields [arr, array]: the argument as the call leaves it    *)
(* and the array it returns.                                               *)
(***************************************************************************)
\* array.splice(start, 1): the array that is left
SpliceOut(array, start) ==
  IF start < Len(array)
  THEN SubSeq(array, 1, start) \o SubSeq(array, start + 2, Len(array))
  ELSE array

\* array.splice(start, 1)[0]
SplicedItem(array, start) ==
  IF start < Len(array) THEN array[start + 1] ELSE "undefined"

\* array.splice(start, 0, item): start is clamped to the length
SpliceIn(array, start, item) ==
  LET at == IF start > Len(array) THEN Len(array) ELSE start
  IN SubSeq(array, 1, at) \o <<item>> \o SubSeq(array, at + 1, Len(array))

\* an arrayMove that exchanges the two positions
arrayMoveSwap(arr, previousIndex, newIndex) ==
  [arr |-> arr,
   array |-> IF previousIndex < Len(arr) /\ newIndex < Len(arr)
             THEN [arr EXCEPT ![previousIndex + 1] = arr[newIndex + 1],
                              ![newIndex + 1] = arr[previousIndex + 1]]
             ELSE arr]

arrayMove(arr, previousIndex, newIndex) ==
  LET array == arr                                    \* arr.slice(0)
      padded == IF newIndex >= Len(array)
                THEN array \o [k \in 1 .. newIndex - Len(array) + 1 |-> "undefined"]
                ELSE array
  IN [arr |-> arr,
      array |-> SpliceIn(SpliceOut(padded, previousIndex), newIndex,
                         SplicedItem(padded, previousIndex))]

(***************************************************************************)
(* Manager: the registry.  A handle (the {node} object an item wrapper     *)
(* creates) is [node, id, edgeOffset]: id is the object's identity,        *)
(* edgeOffset the offset animateNodes caches on it (<<>> when not cached). *)
(* sortableInfo of a node is <<>> when the node has none, else             *)
(* <<[index, collection, translate]>>.                                     *)
(***************************************************************************)
Collections == {0, 1}

Handle(node, id) == [node |-> node, id |-> id, edgeOffset |-> <<>>]

RECURSIVE Without(_, _)
Without(s, id) ==
  IF s = <<>> THEN <<>>
  ELSE IF Head(s).id = id THEN Tail(s)
  ELSE <<Head(s)>> \o Without(Tail(s), id)

\* add(collection, handle): appends; ignored when the handle is already present
ManagerAdd(refs, collection, ref) ==
  IF \E i \in 1 .. Len(refs[collection]) : refs[collection][i].id = ref.id
  THEN refs
  ELSE [refs EXCEPT ![collection] = Append(@, ref)]

\* remove(collection, handle): removes by identity; no-op when absent
ManagerRemove(refs, collection, id) ==
  [refs EXCEPT ![collection] = Without(@, id)]

\* isActive()
ManagerIsActive(mgr) == mgr.active # <<>>

IndexOfNode(nd, k) == nd[k].info[1].index

RECURSIVE InsertByIndex(_, _, _)
InsertByIndex(sorted, ref, nd) ==
  IF sorted = <<>> THEN <<ref>>
  ELSE IF IndexOfNode(nd, Head(sorted).node) <= IndexOfNode(nd, ref.node)
       THEN <<Head(sorted)>> \o InsertByIndex(Tail(sorted), ref, nd)
       ELSE <<ref>> \o sorted

RECURSIVE SortByIndex(_, _)
SortByIndex(s, nd) ==
  IF s = <<>> THEN <<>>
  ELSE InsertByIndex(SortByIndex(SubSeq(s, 1, Len(s) - 1), nd), s[Len(s)], nd)

\* getOrdered(collection): the handles in ascending index order (stable)
getOrderedRefs(refs, nd, collection) == SortByIndex(refs[collection], nd)

\* getActive(): the handle of the active collection whose node carries the
\* active index, <<>> when there is none (the caller reads active.node)
getActive(mgr, nd) ==
  LET a == mgr.active[1]
      rs == mgr.refs[a.collection]
      hits == {i \in 1 .. Len(rs) : IndexOfNode(nd, rs[i].node) = a.index}
  IN IF hits = {} THEN <<>>
     ELSE <<rs[CHOOSE i \in hits : \A j \in hits : i <= j]>>

(***************************************************************************)
(* animateNodes (index.js 636-847)                                         *)
(***************************************************************************)
\* the cached edge offset of a handle, computed when not cached (670-673)
Edge(fx, ref) ==
  IF ref.edgeOffset # <<>> THEN ref.edgeOffset[1] ELSE getEdgeOffset(fx, ref.node)

\* sortingOffset + scrollDifference (640-651)
DraggedOffset(ins, scroll) ==
  LET deltaScroll == [left |-> scroll.left - ins.initialScroll.left,
                      top |-> scroll.top - ins.initialScroll.top]
      sortingOffset == [left |-> ins.offsetEdge.left + ins.translate.x + deltaScroll.left,
                        top |-> ins.offsetEdge.top + ins.translate.y + deltaScroll.top]
      scrollDifference == [top |-> WindowScroll.top - ins.initialWindowScroll.top,
                           left |-> WindowScroll.left - ins.initialWindowScroll.left]
  IN [left |-> sortingOffset.left + scrollDifference.left,
      top |-> sortingOffset.top + scrollDifference.top]

\* One iteration of the loop (654-817) for ordered[i]: the translate the node
\* receives and what the iteration does to this.newIndex:
\*   "skip"   the dragged node (686-698): no translate is assigned
\*   "none"   translate assigned, newIndex untouched
\*   "first"  newIndex = index if it is still null
\*   "last"   newIndex = index
\*   "fault"  nextNode / prevNode is false where its edgeOffset is read
\* hover[index] is what onSortHover answers for the node when it is asked.
Iteration(fx, p, st, ins, scroll, ordered, nd, hover, i) ==
  LET ref == ordered[i]
      node == ref.node
      index == IndexOfNode(nd, node)
      width == OffsetWidth(fx, node)
      height == OffsetHeight(fx, node)
      offset == [width |-> IF ins.width > width THEN Half(width) ELSE Half(ins.width),
                 height |-> IF ins.height > height THEN Half(height) ELSE Half(ins.height)]
      edgeOffset == Edge(fx, ref)
      hasNext == i < Len(ordered)
      hasPrev == i > 1
      so == DraggedOffset(ins, scroll)
      before == index < Num(ins.index)
      after == index > Num(ins.index)
      none == [mark |-> "none", translate |-> Zero2]
  IN
  IF index = ins.index THEN [mark |-> "skip", translate |-> Zero2]
  ELSE IF ins.axis.x THEN
    IF ins.axis.y THEN
      \* grid (702-749)
      IF /\ before
         /\ \/ /\ so.left - offset.width <= edgeOffset.left
               /\ so.top <= edgeOffset.top + offset.height
            \/ so.top + offset.height <= edgeOffset.top
      THEN
        LET tx == ins.width + ins.marginOffset.x IN
        IF edgeOffset.left + tx > ins.containerBoundingRect.width - offset.width
        THEN IF hasNext
             THEN [mark |-> "first",
                   translate |-> [x |-> Edge(fx, ordered[i + 1]).left - edgeOffset.left,
                                  y |-> Edge(fx, ordered[i + 1]).top - edgeOffset.top]]
             ELSE [mark |-> "fault", translate |-> Zero2]
        ELSE [mark |-> "first", translate |-> [x |-> tx, y |-> 0]]
      ELSE IF
         /\ after
         /\ \/ /\ so.left + offset.width >= edgeOffset.left
               /\ so.top + offset.height >= edgeOffset.top
            \/ so.top + offset.height >= edgeOffset.top + height
      THEN
        LET tx == 0 - (ins.width + ins.marginOffset.x) IN
        IF edgeOffset.left + tx < ins.containerBoundingRect.left + offset.width
        THEN IF hasPrev
             THEN [mark |-> "last",
                   translate |-> [x |-> Edge(fx, ordered[i - 1]).left - edgeOffset.left,
                                  y |-> Edge(fx, ordered[i - 1]).top - edgeOffset.top]]
             ELSE [mark |-> "fault", translate |-> Zero2]
        ELSE [mark |-> "last", translate |-> [x |-> tx, y |-> 0]]
      ELSE none
    ELSE
      \* axis x (751-765)
      IF after /\ so.left + offset.width >= edgeOffset.left
      THEN [mark |-> "last",
            translate |-> [x |-> 0 - (ins.width + ins.marginOffset.x), y |-> 0]]
      ELSE IF (~st.isOrigin \/ before) /\ so.left <= edgeOffset.left + offset.width
      THEN [mark |-> "first",
            translate |-> [x |-> ins.width + ins.marginOffset.x, y |-> 0]]
      ELSE none
  ELSE IF ins.axis.y THEN
    \* axis y (767-813)
    LET draggedTop == so.top
        draggedBottom == draggedTop + ins.height
        edgeTop == edgeOffset.top
        edgeBottom == edgeTop + height
    IN
    IF ~st.isOrigin \/ before THEN
      LET shouldTranslate ==
            IF p.onSortHover /\ draggedTop < edgeBottom /\ draggedTop > edgeTop
            THEN hover[index]
            ELSE draggedTop < edgeBottom
      IN IF shouldTranslate
         THEN [mark |-> "first",
               translate |-> [x |-> 0, y |-> ins.height + ins.marginOffset.y]]
         ELSE none
    ELSE IF after THEN
      LET shouldTranslate ==
            IF p.onSortHover /\ draggedBottom > edgeTop /\ draggedBottom < edgeBottom
            THEN hover[index]
            ELSE draggedBottom > edgeTop
      IN IF shouldTranslate
         THEN [mark |-> "last",
               translate |-> [x |-> 0, y |-> 0 - (ins.height + ins.marginOffset.y)]]
         ELSE none
    ELSE none
  ELSE none

\* this.newIndex after the iterations 1..i, starting from null (652)
RECURSIVE NewIndexAfter(_, _, _)
NewIndexAfter(its, ordered_index, i) ==
  IF i = 0 THEN NullIdx
  ELSE LET prev == NewIndexAfter(its, ordered_index, i - 1) IN
       CASE its[i].mark = "last" -> ordered_index[i]
         [] its[i].mark = "first" -> IF prev = NullIdx THEN ordered_index[i] ELSE prev
         [] OTHER -> prev

\* The position in ordered of the iteration that faults, Len(ordered) + 1 when none
FirstFault(its) ==
  LET bad == {i \in DOMAIN its : its[i].mark = "fault"}
  IN IF bad = {} THEN Len(its) + 1 ELSE CHOOSE i \in bad : \A j \in bad : i <= j

(***************************************************************************)
(* A world is the mutable state the handlers work on:                      *)
(*   st this.state, ins the instance fields, mgr the manager, d the        *)
(*   document, tm the timers, em the onSortEnd calls, fault.               *)
(* A handler is an operator from a world (and its inputs) to a world.      *)
(***************************************************************************)
\* threw: the handler that is running was left by an exception (its callers
\* do not go on); fault keeps the last exception that escaped a handler;
\* moved: handleSortMove ran; reflowed: animateNodes ran to its end;
\* crossed: handleMove saw the pointer pressThreshold or more from the press;
\* refused: handleStart returned because the target is in no drag handle;
\* vetoed: canSortDrop answered false to the reflow.
Throw(w, what) == [w EXCEPT !.fault = what, !.threw = TRUE]

\* the last position of a non-empty set of positions
LastOf(S) == CHOOSE i \in S : \A j \in S : j <= i

\* a first loop that writes only the translates that move an item: an item
\* the pass does not shift keeps the translate of the pass before
FirstLoopSticky(nd, ordered, its, done) ==
  [k \in DOMAIN nd |->
     LET pos == {i \in 1 .. done : ordered[i].node = k /\ its[i].mark # "skip"}
     IN IF pos # {} /\ its[LastOf(pos)].translate # Zero2
        THEN [nd[k] EXCEPT !.info[1].translate = its[LastOf(pos)].translate]
        ELSE nd[k]]

\* The first loop's effect on the nodes (654-817): every node of ordered gets
\* the translate of the last completed iteration that assigned it one; the
\* dragged node is hidden (686-698).  done iterations ran to their end.
FirstLoop(nd, ordered, its, done) ==
  [k \in DOMAIN nd |->
     LET pos == {i \in 1 .. done : ordered[i].node = k /\ its[i].mark # "skip"}
         hidden == /\ props.hideSortableGhost
                   /\ \E i \in 1 .. done : ordered[i].node = k /\ its[i].mark = "skip"
     IN IF \E i \in 1 .. Len(ordered) : ordered[i].node = k
        THEN [nd[k] EXCEPT
                !.info[1].translate = IF pos = {} THEN @ ELSE its[LastOf(pos)].translate,
                !.visibility = IF hidden THEN "hidden" ELSE @]
        ELSE nd[k]]

\* a second loop that lets the veto pass: the translates are kept
SecondLoopKeeps(nd, ordered, isDropAllowed) ==
  [k \in DOMAIN nd |->
     IF \E i \in 1 .. Len(ordered) : ordered[i].node = k
     THEN [nd[k] EXCEPT
             !.transition = IF props.transitionDuration # 0
                            THEN <<props.transitionDuration>> ELSE @,
             !.transform = <<nd[k].info[1].translate.x, nd[k].info[1].translate.y>>]
     ELSE nd[k]]

\* the second loop (827-846): the veto resets the translates, then the
\* transition and the transform are written
SecondLoop(nd, ordered, isDropAllowed) ==
  [k \in DOMAIN nd |->
     IF \E i \in 1 .. Len(ordered) : ordered[i].node = k
     THEN [nd[k] EXCEPT
             !.info[1].translate = IF isDropAllowed THEN @ ELSE Zero2,
             !.transition = IF props.transitionDuration # 0
                            THEN <<props.transitionDuration>> ELSE @,
             !.transform = IF isDropAllowed
                           THEN <<nd[k].info[1].translate.x, nd[k].info[1].translate.y>>
                           ELSE <<0, 0>>]
     ELSE nd[k]]

\* the handles whose edge offset the loop cached (670-673): those of the
\* iterations that ran, the one that faulted included
CacheEdges(rs, ordered, upto) ==
  [i \in DOMAIN rs |->
     IF \E j \in 1 .. upto : ordered[j].id = rs[i].id
     THEN [rs[i] EXCEPT !.edgeOffset = <<Edge(fixture, rs[i])>>]
     ELSE rs[i]]

\* this.sortableGhost after the loop (686-698)
GhostAfter(ghost, ordered, its, done) ==
  LET skipped == {i \in 1 .. done : its[i].mark = "skip"}
  IN IF props.hideSortableGhost /\ skipped # {}
     THEN <<ordered[LastOf(skipped)].node>> ELSE ghost

\* an end of the reflow that leaves newIndex alone when the drop is refused
ReflowEndKeepsIndex(w, ordered, faulted, found, isDropAllowed, ghost, refs1, nodes1) ==
  [w EXCEPT !.ins.newIndex = IF found = NullIdx THEN w.ins.index ELSE found,
            !.ins.sortableGhost = ghost,
            !.mgr.refs = refs1,
            !.d.nodes = SecondLoop(nodes1, ordered, isDropAllowed),
            !.reflowed = TRUE,
            !.vetoed = ~isDropAllowed]

\* the world after the loops: found is this.newIndex after the first loop
ReflowEnd(w, ordered, faulted, found, isDropAllowed, ghost, refs1, nodes1) ==
  IF faulted
  THEN [w EXCEPT !.fault = "TypeError",
                 !.threw = TRUE,
                 !.ins.newIndex = found,
                 !.ins.sortableGhost = ghost,
                 !.mgr.refs = refs1,
                 !.d.nodes = nodes1]
  ELSE [w EXCEPT !.ins.newIndex =
                   IF ~isDropAllowed \/ found = NullIdx THEN w.ins.index ELSE found,
                 !.ins.sortableGhost = ghost,
                 !.mgr.refs = refs1,
                 !.d.nodes = SecondLoop(nodes1, ordered, isDropAllowed),
                 !.reflowed = TRUE,
                 !.vetoed = ~isDropAllowed]

ReflowDone(w, ordered, its, done, allowed) ==
  ReflowEnd(w, ordered, done < Len(ordered),
            NewIndexAfter(its, [i \in 1 .. Len(ordered) |->
                                  IndexOfNode(w.d.nodes, ordered[i].node)], done),
            (props.canSortDrop = "none") \/ allowed,
            GhostAfter(w.ins.sortableGhost, ordered, its, done),
            [w.mgr.refs EXCEPT ![w.mgr.active[1].collection] =
               CacheEdges(@, ordered, IF done < Len(ordered) THEN done + 1 ELSE done)],
            FirstLoop(w.d.nodes, ordered, its, done))

ReflowIterations(w, ordered, its, allowed) ==
  ReflowDone(w, ordered, its, FirstFault(its) - 1, allowed)

ReflowOrdered(w, ordered, hover, allowed) ==
  ReflowIterations(w, ordered,
                   [i \in 1 .. Len(ordered) |->
                      Iteration(fixture, props, w.st, w.ins, w.d.scroll, ordered,
                                w.d.nodes, hover, i)],
                   allowed)

\* animateNodes(): hover is onSortHover's answer per index, allowed is
\* canSortDrop's answer (read only when the callback is registered)
animateNodes(w, hover, allowed) ==
  IF w.mgr.active = <<>> THEN Throw(w, "TypeError")   \* getOrderedRefs reads active.collection
  ELSE ReflowOrdered(w, getOrderedRefs(w.mgr.refs, w.d.nodes, w.mgr.active[1].collection),
                     hover, allowed)

(***************************************************************************)
(* getLockPixelOffsets / getLockPixelOffset (529-585).  props.lockOffset   *)
(* is [isArray, items]; an item is [str, unit, value, finite]: a string    *)
(* matches the pattern when unit is "px" or "%", value is what parseFloat  *)
(* reads (or the number itself), finite what isFinite answers.             *)
(***************************************************************************)
getLockPixelOffset(ins, item) ==
  IF item.str /\ item.unit \notin {"px", "%"} THEN [ok |-> FALSE, x |-> 0, y |-> 0]
  ELSE IF ~item.finite THEN [ok |-> FALSE, x |-> 0, y |-> 0]
  ELSE IF item.str /\ item.unit = "%"
       THEN [ok |-> TRUE, x |-> (item.value * ins.width) \div 100,
                          y |-> (item.value * ins.height) \div 100]
       ELSE [ok |-> TRUE, x |-> item.value, y |-> item.value]

getLockPixelOffsets(ins) ==
  LET lockOffset == IF props.lockOffset.isArray THEN props.lockOffset.items
                    ELSE <<props.lockOffset.items[1], props.lockOffset.items[1]>>
  IN IF Len(lockOffset) # 2 THEN [ok |-> FALSE, min |-> Zero2, max |-> Zero2]
     ELSE LET lo == getLockPixelOffset(ins, lockOffset[1])
              hi == getLockPixelOffset(ins, lockOffset[2])
          IN [ok |-> lo.ok /\ hi.ok,
              min |-> [x |-> lo.x, y |-> lo.y],
              max |-> [x |-> hi.x, y |-> hi.y]]

\* getOffset(e)
getOffset(e) == [x |-> e.x, y |-> e.y]

\* updatePosition(e) (587-634).  minTranslate / maxTranslate of an axis that
\* is not enabled are undefined: limit(NaN, NaN, v) is v.
updatePosition(w, e) ==
  LET ins == w.ins
      offset == getOffset(e)
      t0 == [x |-> (offset.x - ins.initialOffset.x)
                     - (WindowScroll.left - ins.initialWindowScroll.left),
             y |-> (offset.y - ins.initialOffset.y)
                     - (WindowScroll.top - ins.initialWindowScroll.top)]
      lock == getLockPixelOffsets(ins)
      minOffset == [x |-> Half(ins.width) - lock.min.x, y |-> Half(ins.height) - lock.min.y]
      maxOffset == [x |-> Half(ins.width) - lock.max.x, y |-> Half(ins.height) - lock.max.y]
      t1 == IF props.lockToContainerEdges
            THEN [x |-> IF ins.axis.x
                        THEN limit(ins.minTranslate.x + minOffset.x,
                                   ins.maxTranslate.x - maxOffset.x, t0.x)
                        ELSE t0.x,
                  y |-> IF ins.axis.y
                        THEN limit(ins.minTranslate.y + minOffset.y,
                                   ins.maxTranslate.y - maxOffset.y, t0.y)
                        ELSE t0.y]
            ELSE t0
      t2 == CASE props.lockAxis = "x" -> [t1 EXCEPT !.y = 0]
              [] props.lockAxis = "y" -> [t1 EXCEPT !.x = 0]
              [] OTHER -> t1
  IN IF props.lockToContainerEdges /\ ~lock.ok
     THEN Throw([w EXCEPT !.ins.translate = t0], "Invariant Violation")
     ELSE [w EXCEPT !.ins.translate = t2]

(***************************************************************************)
(* autoscroll (849-901).  The interval is <<>> when none is scheduled,     *)
(* else <<offset>>: the offset its callback adds on every tick.            *)
(***************************************************************************)
acceleration == 10

autoscroll(w) ==
  LET ins == w.ins
      translate == ins.translate
      down == ins.axis.y /\ translate.y >= ins.maxTranslate.y - Half(ins.height)
      right == ins.axis.x /\ translate.x >= ins.maxTranslate.x - Half(ins.width)
      up == ins.axis.y /\ translate.y <= ins.minTranslate.y + Half(ins.height)
      left == ins.axis.x /\ translate.x <= ins.minTranslate.x + Half(ins.width)
      direction ==
        CASE down -> [x |-> 0, y |-> 1]
          [] ~down /\ right -> [x |-> 1, y |-> 0]
          [] ~down /\ ~right /\ up -> [x |-> 0, y |-> 0 - 1]
          [] ~down /\ ~right /\ ~up /\ left -> [x |-> 0 - 1, y |-> 0]
          [] OTHER -> Zero2
      speed ==
        CASE down ->
               [x |-> 1,
                y |-> (acceleration
                        * Abs(ins.maxTranslate.y - Half(ins.height) - translate.y))
                      \div ins.height]
          [] ~down /\ right ->
               [x |-> (acceleration
                        * Abs(ins.maxTranslate.x - Half(ins.width) - translate.x))
                      \div ins.width,
                y |-> 1]
          [] ~down /\ ~right /\ up ->
               [x |-> 1,
                y |-> (acceleration
                        * Abs(translate.y - Half(ins.height) - ins.minTranslate.y))
                      \div ins.height]
          [] ~down /\ ~right /\ ~up /\ left ->
               [x |-> (acceleration
                        * Abs(translate.x - Half(ins.width) - ins.minTranslate.x))
                      \div ins.width,
                y |-> 1]
          [] OTHER -> [x |-> 1, y |-> 1]
      cleared == IF ins.autoscrollInterval # <<>>
                 THEN [ins EXCEPT !.autoscrollInterval = <<>>, !.isAutoScrolling = FALSE]
                 ELSE ins
  IN IF direction.x # 0 \/ direction.y # 0
     THEN [w EXCEPT !.ins = [cleared EXCEPT !.autoscrollInterval =
                               <<[left |-> speed.x * direction.x,
                                  top |-> speed.y * direction.y]>>]]
     ELSE [w EXCEPT !.ins = cleared]

\* the interval's callback (886-897)
autoscrollTick(w, hover, allowed) ==
  LET offset == w.ins.autoscrollInterval[1]
      w1 == [w EXCEPT
               !.ins.isAutoScrolling = TRUE,
               !.d.scroll = ClampScroll(fixture, [top |-> @.top + offset.top,
                                                   left |-> @.left + offset.left]),
               !.ins.translate = [x |-> @.x + offset.left, y |-> @.y + offset.top]]
  IN animateNodes(w1, hover, allowed)

(***************************************************************************)
(* handlePress (245-392).  origin is <<>> when the press is the            *)
(* container's own, else <<[width, height, rect]>>: the node of another    *)
(* container with its dimensions and bounding rectangle.                   *)
(***************************************************************************)
NewHelper(helpers) == CHOOSE h \in 0 .. Cardinality(helpers) : h \notin helpers

handlePress(w, e, origin) ==
  LET isOrigin == origin = <<>> IN
  IF isOrigin /\ w.mgr.active = <<>>
  THEN Throw(w, "TypeError")                \* getActive reads active.collection
  ELSE
  LET fx == fixture
      found == IF isOrigin THEN getActive(w.mgr, w.d.nodes) ELSE <<>>
      hasNode == IF isOrigin THEN found # <<>> ELSE TRUE
      active == IF isOrigin THEN w.mgr.active
                ELSE <<[index |-> NullIdx, collection |-> 0]>>
      node == IF isOrigin /\ hasNode THEN found[1].node ELSE NoNode
      index == active[1].index
      margin == ElementMargin(fx)
      containerBoundingRect == ContainerRect(fx)
      \* getHelperDimensions: node.offsetWidth, node.offsetHeight
      width == IF isOrigin THEN OffsetWidth(fx, node) ELSE origin[1].width
      height == IF isOrigin THEN OffsetHeight(fx, node) ELSE origin[1].height
      rect == IF isOrigin THEN NodeRect(fx, w.d.scroll, node) ELSE origin[1].rect
      axis == [x |-> props.axis \in {"x", "xy"}, y |-> props.axis \in {"y", "xy"}]
      helper == NewHelper(w.d.helpers)
      hide == isOrigin /\ props.hideSortableGhost
      listen == isOrigin /\ ~props.useCustomEvents
  IN
  IF ~hasNode THEN [w EXCEPT !.mgr.active = active]
  ELSE
  [w EXCEPT
     !.mgr.active = active,
     !.ins = [@ EXCEPT
        !.node = node,
        !.width = width,
        !.height = height,
        !.marginOffset = [x |-> margin.left + margin.right,
                          y |-> Max(margin.top, margin.bottom)],
        !.boundingClientRect = rect,
        !.containerBoundingRect = containerBoundingRect,
        !.index = index,
        !.newIndex = index,
        !.axis = axis,
        !.offsetEdge = [top |-> rect.top - containerBoundingRect.top + w.d.scroll.top,
                        left |-> rect.left - containerBoundingRect.left + w.d.scroll.left],
        !.initialOffset = getOffset(e),
        !.initialScroll = w.d.scroll,
        !.initialWindowScroll = WindowScroll,
        !.helper = IF isOrigin THEN <<helper>> ELSE @,
        !.sortableGhost = IF hide THEN <<node>> ELSE @,
        !.minTranslate =
           [x |-> IF axis.x
                  THEN containerBoundingRect.left - rect.left - Half(width) ELSE 0,
            y |-> IF axis.y
                  THEN containerBoundingRect.top - rect.top - Half(height) ELSE 0],
        !.maxTranslate =
           [x |-> IF axis.x
                  THEN containerBoundingRect.left + containerBoundingRect.width
                         - rect.left - Half(width)
                  ELSE 0,
            y |-> IF axis.y
                  THEN containerBoundingRect.top + containerBoundingRect.height
                         - rect.top - Half(height)
                  ELSE 0],
        !.listenerNode = IF listen THEN (IF e.touches THEN "node" ELSE "window") ELSE @,
        !.listening = IF listen THEN TRUE ELSE @],
     !.d.helpers = IF isOrigin THEN @ \cup {helper} ELSE @,
     !.d.nodes = IF hide THEN [@ EXCEPT ![node].visibility = "hidden"] ELSE @,
     !.st = [isOrigin |-> isOrigin, sorting |-> TRUE]]

(***************************************************************************)
(* cancel, handleStart, handleMove, handleEnd (146-240)                    *)
(***************************************************************************)
\* clearTimeout(this.pressTimer): the timer the field names, when still pending
ClearPressTimer(press) == SelectSeq(press, LAMBDA t : ~t.cur)

cancel(w) ==
  IF ~w.st.sorting
  THEN [w EXCEPT !.tm.press = ClearPressTimer(@), !.mgr.active = <<>>]
  ELSE w

\* e is [x, y, touches, button, denied, target, inHandle]: denied is what
\* shouldCancelStart(e) answers, target the node with sortableInfo that
\* closest() finds from e.target (NoNode when none), inHandle whether e.target
\* is inside an element marked sortableHandle.
nodeIsChild(w, node) == w.d.nodes[node].info[1].manager = "this"

\* a handleStart that measures the touched item at once: it caches the edge
\* offset on the item's handle before the press is decided
handleStartMeasures(w, e) ==
  IF e.button = 2 \/ e.denied \/ e.target = NoNode THEN w
  ELSE [w EXCEPT
          !.ins.touched = TRUE,
          !.mgr.active = <<[index |-> e.target, collection |-> 0]>>,
          !.mgr.refs[0] = [i \in DOMAIN @ |->
                             IF @[i].node = e.target
                             THEN [@[i] EXCEPT !.edgeOffset = <<getEdgeOffset(fixture, e.target)>>]
                             ELSE @[i]]]

handleStart(w, e) ==
  IF e.button = 2 \/ e.denied THEN w
  ELSE
  LET w1 == [w EXCEPT !.ins.touched = TRUE, !.ins.pos = [x |-> e.x, y |-> e.y]]
      node == e.target
  IN
  IF /\ node # NoNode
     /\ w.d.nodes[node].info # <<>>
     /\ nodeIsChild(w, node)
     /\ ~w.st.sorting
  THEN
    IF props.useDragHandle /\ ~e.inHandle THEN [w1 EXCEPT !.refused = TRUE]
    ELSE
    LET info == w.d.nodes[node].info[1]
        w2 == [w1 EXCEPT !.mgr.active =
                 <<[index |-> info.index, collection |-> info.collection]>>]
    IN IF props.distance = 0
       THEN IF props.pressDelay = 0
            THEN handlePress(w2, e, <<>>)
            ELSE [w2 EXCEPT !.tm.press =
                    Append([i \in DOMAIN @ |-> [@[i] EXCEPT !.cur = FALSE]],
                           [cur |-> TRUE, e |-> [x |-> e.x, y |-> e.y, touches |-> e.touches]])]
       ELSE w2
  ELSE w1

handleMove(w, e) ==
  IF ~w.st.sorting /\ w.ins.touched
  THEN
    LET delta == Abs(w.ins.pos.x - e.x) + Abs(w.ins.pos.y - e.y) IN
    IF props.distance = 0 /\ (props.pressThreshold = 0 \/ delta >= props.pressThreshold)
    THEN [w EXCEPT !.tm.cancel = TRUE,     \* clearTimeout; setTimeout(this.cancel, 0)
                   !.crossed = TRUE]
    ELSE IF props.distance # 0 /\ delta >= props.distance /\ ManagerIsActive(w.mgr)
    THEN handlePress(w, e, <<>>)
    ELSE w
  ELSE w

handleEnd(w) ==
  LET w1 == [w EXCEPT !.ins.touched = FALSE] IN
  IF props.distance = 0 THEN cancel(w1)
  ELSE IF ~w1.st.sorting THEN [w1 EXCEPT !.mgr.active = <<>>]
  ELSE w1

(***************************************************************************)
(* handleSortMove, pauseSortMove, handleSortEnd (394-505)                  *)
(***************************************************************************)
\* a step of a handler: nothing more runs once an exception left it
AfterAnimate(w) == IF w.threw THEN w ELSE autoscroll(w)

AfterUpdate(w, hover, allowed) ==
  IF w.threw THEN w ELSE AfterAnimate(animateNodes(w, hover, allowed))

handleSortMove(w, e, hover, allowed) ==
  AfterUpdate(updatePosition([w EXCEPT !.ins.paused = FALSE, !.moved = TRUE], e),
              hover, allowed)

\* the loops of pauseSortMove (423-433) and handleSortEnd (466-477) over
\* manager.refs[collection]: transform is what the loop leaves in the style
ResetNodes(w, collection, transform, keepTransition) ==
  LET rs == w.mgr.refs[collection]
      InList(k) == \E i \in 1 .. Len(rs) : rs[i].node = k
  IN [w EXCEPT
        !.mgr.refs[collection] = [i \in DOMAIN @ |-> [@[i] EXCEPT !.edgeOffset = <<>>]],
        !.d.nodes = [k \in DOMAIN @ |->
                       IF InList(k)
                       THEN [@[k] EXCEPT !.info[1].translate = Zero2,
                                         !.transform = transform,
                                         !.transition = IF keepTransition THEN @ ELSE <<>>]
                       ELSE @[k]]]

pauseSortMove(w) ==
  LET w1 == IF w.ins.autoscrollInterval # <<>>
            THEN [w EXCEPT !.ins.autoscrollInterval = <<>>, !.ins.isAutoScrolling = FALSE]
            ELSE w
  IN IF w1.ins.paused \/ w1.mgr.active = <<>> THEN w1
     ELSE ResetNodes([w1 EXCEPT !.ins.paused = TRUE],
                     w1.mgr.active[1].collection, <<0, 0>>, TRUE)

\* a handleSortEnd that ends the session and leaves onSortEnd uncalled
SortEndCommitSilent(w, collection) ==
  [w EXCEPT
     !.ins.autoscrollInterval = <<>>,
     !.mgr.active = <<>>,
     !.st = [isOrigin |-> FALSE, sorting |-> FALSE],
     !.ins.paused = FALSE,
     !.ins.touched = FALSE]

\* a handleSortEnd that leaves the autoscroll interval scheduled
SortEndCommitScrolling(w, collection) ==
  [w EXCEPT
     !.mgr.active = <<>>,
     !.st = [isOrigin |-> FALSE, sorting |-> FALSE],
     !.em = IF props.onSortEnd
            THEN [n |-> @.n + 1,
                  last |-> <<[oldIndex |-> w.ins.index,
                              newIndex |-> w.ins.newIndex,
                              collection |-> collection]>>]
            ELSE @,
     !.ins.paused = FALSE,
     !.ins.touched = FALSE]

\* handleSortEnd after the helper is removed and the ghost shown again
SortEndCommit(w, collection) ==
  [w EXCEPT
     !.ins.autoscrollInterval = <<>>,
     !.mgr.active = <<>>,
     !.st = [isOrigin |-> FALSE, sorting |-> FALSE],
     !.em = IF props.onSortEnd
            THEN [n |-> @.n + 1,
                  last |-> <<[oldIndex |-> w.ins.index,
                              newIndex |-> w.ins.newIndex,
                              collection |-> collection]>>]
            ELSE @,
     !.ins.paused = FALSE,
     !.ins.touched = FALSE]

\* a removal of the helper that leaves the ghost hidden
RemoveHelperOnly(w) ==
  IF w.ins.helper # <<>>
  THEN [w EXCEPT
          !.d.helpers = @ \ {w.ins.helper[1]},
          !.ins.helper = <<>>,
          !.ins.listening = IF w.ins.listenerNode # "" THEN FALSE ELSE @]
  ELSE [w EXCEPT !.ins.listening = IF w.ins.listenerNode # "" THEN FALSE ELSE @]

RemoveHelper(w) ==
  LET restore == props.hideSortableGhost /\ w.ins.sortableGhost # <<>> IN
  IF w.ins.helper # <<>>
  THEN [w EXCEPT
          !.d.helpers = @ \ {w.ins.helper[1]},
          !.ins.helper = <<>>,
          !.d.nodes = IF restore
                      THEN [@ EXCEPT ![w.ins.sortableGhost[1]].visibility = ""]
                      ELSE @,
          !.ins.sortableGhost = IF restore THEN <<>> ELSE @,
          !.ins.listening = IF w.ins.listenerNode # "" THEN FALSE ELSE @]
  ELSE [w EXCEPT !.ins.listening = IF w.ins.listenerNode # "" THEN FALSE ELSE @]

handleSortEnd(w) ==
  IF w.mgr.active = <<>> THEN Throw(w, "TypeError")   \* const {collection} = null
  ELSE SortEndCommit(ResetNodes(RemoveHelper(w), w.mgr.active[1].collection, <<>>, FALSE),
                     w.mgr.active[1].collection)

(***************************************************************************)
(* SortableElement: the item wrapper (part_001 27-74).  Wrapper k renders  *)
(* node k.  A wrapper is [mounted, props, node, ref]: mounted is "no",     *)
(* "yes" or "gone"; node says whether this.node is set; ref is <<>> or     *)
(* <<id>>, the identity of this.ref.  nextRef numbers the handles.         *)
(***************************************************************************)
setDraggable(ws, mgr, d, k, collection, index) ==
  LET id == ws.nextRef IN
  [ws |-> [ws EXCEPT !.w[k].node = TRUE, !.w[k].ref = <<id>>, !.nextRef = id + 1],
   mgr |-> [mgr EXCEPT !.refs = ManagerAdd(@, collection, Handle(k, id))],
   d |-> [d EXCEPT !.nodes[k].info =
            <<[index |-> index, collection |-> collection,
               manager |-> "this", translate |-> Zero2]>>]]

removeDraggable(ws, mgr, d, k, collection) ==
  [ws |-> ws,
   mgr |-> IF ws.w[k].ref = <<>> THEN mgr
           ELSE [mgr EXCEPT !.refs = ManagerRemove(@, collection, ws.w[k].ref[1])],
   d |-> d]

componentDidMount(ws, mgr, d, k) ==
  LET p == ws.w[k].props IN
  IF ~p.disabled THEN setDraggable(ws, mgr, d, k, p.collection, p.index)
  ELSE [ws |-> ws, mgr |-> mgr, d |-> d]

\* ws already holds the new props; prevProps are the props before the update
componentDidUpdate(ws, mgr, d, k, prevProps) ==
  LET p == ws.w[k].props
      d1 == IF prevProps.index # p.index /\ ws.w[k].node
            THEN [d EXCEPT !.nodes[k].info[1].index = p.index]
            ELSE d
  IN IF prevProps.disabled # p.disabled
     THEN IF p.disabled
          THEN removeDraggable(ws, mgr, d1, k, p.collection)
          ELSE setDraggable(ws, mgr, d1, k, p.collection, p.index)
     ELSE IF prevProps.collection # p.collection
     THEN LET r == removeDraggable(ws, mgr, d1, k, p.collection)
          IN setDraggable(r.ws, r.mgr, r.d, k, p.collection, p.index)
     ELSE [ws |-> ws, mgr |-> mgr, d |-> d1]

componentWillUnmount(ws, mgr, d, k) ==
  LET p == ws.w[k].props IN
  IF ~p.disabled THEN removeDraggable(ws, mgr, d, k, p.collection)
  ELSE [ws |-> ws, mgr |-> mgr, d |-> d]

(***************************************************************************)
(* Configurations: the props of the container and the document it is in.   *)
(***************************************************************************)
\* defaultProps (38-61); lockOffset '50%'
DefaultProps ==
  [axis |-> "y", lockAxis |-> "", distance |-> 0, pressDelay |-> 0,
   pressThreshold |-> 5, transitionDuration |-> 300,
   useDragHandle |-> FALSE, useCustomEvents |-> FALSE, hideSortableGhost |-> TRUE,
   lockToContainerEdges |-> FALSE,
   lockOffset |-> [isArray |-> FALSE,
                   items |-> <<[str |-> TRUE, unit |-> "%", value |-> 50, finite |-> TRUE]>>],
   canSortDrop |-> "none", onSortHover |-> FALSE, onSortEnd |-> TRUE]

\* scrollHeight - clientHeight, scrollWidth - clientWidth of the container
MaxScrollOf(layout, ext, cross, margin, cols, container) ==
  LET n == Len(ext)
      contentW == CASE layout = "row" -> SumTo(ext, n) + n * 2 * margin
                    [] layout = "column" -> cross + 2 * margin
                    [] OTHER -> cols * (ext[1] + 2 * margin)
      contentH == CASE layout = "row" -> cross + 2 * margin
                    [] layout = "column" -> SumTo(ext, n) + (n + 1) * margin
                    [] OTHER -> ((n + cols - 1) \div cols) * (cross + 2 * margin)
  IN [top |-> Max(0, contentH - container.height),
      left |-> Max(0, contentW - container.width)]

Fixture(layout, ext, cross, margin, cols, container, scroll0, start, xs, ys, targets, touch) ==
  [layout |-> layout, ext |-> ext, cross |-> cross, margin |-> margin, cols |-> cols,
   container |-> container,
   maxScroll |-> MaxScrollOf(layout, ext, cross, margin, cols, container),
   scroll0 |-> scroll0, start |-> start, xs |-> xs, ys |-> ys, targets |-> targets,
   touch |-> touch,
   origin |-> [width |-> ext[1], height |-> cross, rect |-> [top |-> container.top, left |-> container.left]]]

Box(left, top, width, height) ==
  [left |-> left, top |-> top, width |-> width, height |-> height]

\* three items of 10 x 10 in a column; the container shows two of them
ColumnFx ==
  Fixture("column", <<10, 10, 10>>, 10, 0, 1, Box(0, 0, 10, 20), ZeroTL,
          [x |-> 0, y |-> 10], {0}, {0, 10, 11, 20, 30}, {0, 1}, FALSE)

\* the same column with a coarse pointer grid and one item to press
PressFx ==
  Fixture("column", <<10, 10, 10>>, 10, 0, 1, Box(0, 0, 10, 20), ZeroTL,
          [x |-> 0, y |-> 10], {0}, {10, 12, 30}, {0}, FALSE)

\* the same column, with a margin of 2 around every item, touched
ColumnMarginFx ==
  Fixture("column", <<10, 10, 10>>, 10, 2, 1, Box(0, 0, 14, 26), ZeroTL,
          [x |-> 0, y |-> 12], {0}, {0, 12, 24, 36}, {0, 1, 2}, TRUE)

\* three items of 10 x 10 in a row; the container shows two of them
RowFx ==
  Fixture("row", <<10, 10, 10>>, 10, 0, 1, Box(0, 0, 20, 10), ZeroTL,
          [x |-> 10, y |-> 0], {5, 6, 10, 14, 15, 20, 30}, {0}, {0, 1}, FALSE)

\* the same row, the pointer moving across it as well
RowAcrossFx ==
  Fixture("row", <<10, 10, 10>>, 10, 0, 1, Box(0, 0, 20, 10), ZeroTL,
          [x |-> 10, y |-> 0], {0, 10, 30}, {0, 3}, {0, 1}, FALSE)

\* the same row, with a margin of 2 around every item
RowMarginFx ==
  Fixture("row", <<10, 10, 10>>, 10, 2, 1, Box(0, 0, 28, 14), ZeroTL,
          [x |-> 14, y |-> 0], {0, 14, 28, 42}, {0}, {0, 1, 2}, FALSE)

\* four items of 10 x 10 in a grid of two columns, scrolled down by 4
GridFx ==
  Fixture("grid", <<10, 10, 10, 10>>, 10, 0, 2, Box(0, 0, 20, 10),
          [top |-> 4, left |-> 0], [x |-> 10, y |-> 10], {0, 10, 20}, {0, 10, 16, 20},
          {0, 3}, FALSE)

\* the same grid in a container that is wider than its two columns (25) and
\* shows both rows
GridWideFx ==
  Fixture("grid", <<10, 10, 10, 10>>, 10, 0, 2, Box(0, 0, 25, 20),
          ZeroTL, [x |-> 10, y |-> 10], {0, 10, 20}, {0, 10, 20}, {0, 3}, FALSE)

\* the same grid in a container of exactly two columns
GridExactFx ==
  Fixture("grid", <<10, 10, 10, 10>>, 10, 0, 2, Box(0, 0, 20, 20),
          ZeroTL, [x |-> 10, y |-> 10], {0, 10, 20}, {0, 10, 20}, {0, 3}, FALSE)

\* the gestures that wait before they become Active: a press delay, a distance
PendingConfigs ==
  { [props |-> [DefaultProps EXCEPT !.pressDelay = 200], fx |-> PressFx],
    [props |-> [DefaultProps EXCEPT !.distance = 5, !.useDragHandle = TRUE], fx |-> PressFx] }

\* the single-axis lists, and the list whose drops are all refused
ListConfigs ==
  { [props |-> DefaultProps, fx |-> ColumnFx],
    [props |-> DefaultProps, fx |-> ColumnMarginFx],
    [props |-> [DefaultProps EXCEPT !.axis = "x"], fx |-> RowFx],
    [props |-> [DefaultProps EXCEPT !.axis = "x"], fx |-> RowMarginFx],
    [props |-> [DefaultProps EXCEPT !.canSortDrop = "never"], fx |-> ColumnFx] }

\* a lockOffset that is no number followed by 'px' or '%', with and without
\* lockToContainerEdges
MalformedConfigs ==
  LET bad == [isArray |-> FALSE,
              items |-> <<[str |-> TRUE, unit |-> "em", value |-> 50, finite |-> TRUE]>>]
  IN { [props |-> [DefaultProps EXCEPT !.lockOffset = bad, !.lockToContainerEdges = edges],
        fx |-> PressFx] : edges \in BOOLEAN }

Configs ==
  PendingConfigs \cup ListConfigs \cup
  { [props |-> [DefaultProps EXCEPT !.useCustomEvents = TRUE], fx |-> PressFx],
    [props |-> [DefaultProps EXCEPT !.axis = "x", !.lockAxis = "x"], fx |-> RowAcrossFx],
    [props |-> [DefaultProps EXCEPT !.axis = "xy", !.lockAxis = "x"], fx |-> GridFx],
    [props |-> [DefaultProps EXCEPT !.axis = "xy"], fx |-> GridExactFx],
    [props |-> [DefaultProps EXCEPT !.axis = "xy"], fx |-> GridWideFx],
    [props |-> [DefaultProps EXCEPT !.canSortDrop = "any"], fx |-> PressFx],
    [props |-> [DefaultProps EXCEPT !.lockToContainerEdges = TRUE], fx |-> PressFx] }
  \cup MalformedConfigs

\* props the constructor refuses: a distance and a press delay together
RejectedConfigs ==
  { [props |-> [DefaultProps EXCEPT !.distance = 5, !.pressDelay = 200], fx |-> PressFx] }

(***************************************************************************)
(* The initial state: the container is constructed and mounted, the items  *)
(* of the fixture are mounted enabled in collection 0 with index = node.   *)
(* When the constructor throws there is no instance: nothing is mounted,   *)
(* no listener is registered (componentDidMount, 103-134, never runs).     *)
(***************************************************************************)
\* a container that accepts every props
constructorLenient(p) == ""

\* the constructor's invariant (28-31): the exception it throws, "" if none
constructor(p) ==
  IF p.distance # 0 /\ p.pressDelay # 0 THEN "Invariant Violation" ELSE ""

InstInit ==
  [touched |-> FALSE, pos |-> Zero2, node |-> NoNode, width |-> 0, height |-> 0,
   marginOffset |-> Zero2, boundingClientRect |-> ZeroTL,
   containerBoundingRect |-> Box(0, 0, 0, 0),
   index |-> NullIdx, newIndex |-> NullIdx,
   axis |-> [x |-> FALSE, y |-> FALSE],
   offsetEdge |-> ZeroTL, initialOffset |-> Zero2, initialScroll |-> ZeroTL,
   initialWindowScroll |-> ZeroTL, helper |-> <<>>, sortableGhost |-> <<>>,
   minTranslate |-> Zero2, maxTranslate |-> Zero2,
   listenerNode |-> "", listening |-> FALSE, translate |-> Zero2, paused |-> FALSE,
   autoscrollInterval |-> <<>>, isAutoScrolling |-> FALSE, mounted |-> TRUE]

NodeInit(fx, k, registered) ==
  [info |-> IF registered
            THEN <<[index |-> k, collection |-> 0, manager |-> "this", translate |-> Zero2]>>
            ELSE <<>>,
   transform |-> <<>>, transition |-> <<>>, visibility |-> ""]

HistInit ==
  [ticks |-> 0, phase |-> "", snap |-> <<>>, reflowed |-> FALSE, crossed |-> FALSE,
   refused |-> FALSE, vetoed |-> FALSE, allowed |-> FALSE]

\* the handles in the order the items registered: the item with the highest
\* index registered first (it was moved there by an earlier reorder)
RegOrder(fx) ==
  LET n == Len(fx.ext) IN
  [i \in 1 .. n |-> IF i = 1 THEN Handle(n - 1, n - 1) ELSE Handle(i - 2, i - 2)]

InitWith(c) ==
  /\ fixture = c.fx
  /\ props = c.props
  /\ state = [isOrigin |-> FALSE, sorting |-> FALSE]
  /\ inst = [InstInit EXCEPT !.mounted = constructor(c.props) = ""]
  /\ manager = [refs |-> [col \in Collections |->
                            IF col = 0 THEN RegOrder(c.fx) ELSE <<>>],
                active |-> <<>>]
  /\ dom = [nodes |-> [k \in NodesOf(c.fx) |-> NodeInit(c.fx, k, TRUE)],
            scroll |-> c.fx.scroll0,
            helpers |-> {}]
  /\ timers = [press |-> <<>>, cancel |-> FALSE]
  /\ wrappers = [w |-> [k \in NodesOf(c.fx) |->
                          [mounted |-> "yes",
                           props |-> [index |-> k, collection |-> 0, disabled |-> FALSE],
                           node |-> TRUE, ref |-> <<k>>]],
                 nextRef |-> Len(c.fx.ext)]
  /\ emitted = [n |-> 0, last |-> <<>>]
  /\ hist = HistInit
  /\ fault = constructor(c.props)

\* no call of arrayMove
NoCall == [given |-> <<>>, arr |-> <<>>, previousIndex |-> 0, newIndex |-> 0,
           array |-> <<>>, back |-> <<>>]

Init ==
  /\ \E c \in Configs \cup RejectedConfigs : InitWith(c)
  /\ moveCall = NoCall

(***************************************************************************)
(* The actions: one per DOM event, timer and call of the host.             *)
(***************************************************************************)
World ==
  [st |-> state, ins |-> inst, mgr |-> manager, d |-> dom, tm |-> timers,
   em |-> emitted, fault |-> fault, threw |-> FALSE, moved |-> FALSE,
   reflowed |-> FALSE, crossed |-> FALSE, refused |-> FALSE, vetoed |-> FALSE]

\* what the frame property of a cancelled gesture compares: the registry
\* (contents, order, cached edge offsets) and every item's translate
Snapshot(mgr, d) ==
  [refs |-> mgr.refs,
   translate |-> [k \in DOMAIN d.nodes |->
                    IF d.nodes[k].info = <<>> THEN <<>> ELSE <<d.nodes[k].info[1].translate>>]]

\* The history (op is the action that runs): phase follows the gesture from
\* Idle ("") to Pending ("pending": an active marker, not sorting) and marks
\* the state right after cancel / handleEnd ended a Pending gesture
\* ("cancelled"); snap is the snapshot taken when the gesture started;
\* reflowed says that the step ran animateNodes to its end; ticks counts the
\* autoscroll ticks since the last pointer move of the session; crossed says
\* that a move of the Pending gesture armed the deferred cancel; refused that
\* the last start event, not yet followed by an end event, was outside the
\* drag handles; vetoed that the step was a reflow canSortDrop refused, allowed
\* that an earlier reflow of the session was not refused.
NextHist(op, w) ==
  LET wasIdle == ~state.sorting /\ manager.active = <<>>
      phase ==
        CASE w.st.sorting -> ""
          [] ~w.st.sorting /\ op = "Start" /\ wasIdle /\ w.mgr.active # <<>> -> "pending"
          [] ~w.st.sorting /\ hist.phase = "pending" /\ w.mgr.active # <<>> -> "pending"
          [] ~w.st.sorting /\ hist.phase = "pending" /\ w.mgr.active = <<>>
               /\ op \in {"End", "CancelTimer"} -> "cancelled"
          [] OTHER -> ""
  IN [ticks |-> CASE w.moved -> 0
                   [] ~w.moved /\ op = "AutoscrollTick" -> hist.ticks + 1
                   [] OTHER -> hist.ticks,
      phase |-> phase,
      reflowed |-> w.reflowed,
      crossed |-> phase = "pending" /\ hist.phase = "pending" /\ (hist.crossed \/ w.crossed),
      vetoed |-> w.vetoed,
      allowed |-> CASE ~w.st.sorting -> FALSE
                    [] w.st.sorting /\ w.reflowed /\ ~w.vetoed -> TRUE
                    [] OTHER -> hist.allowed,
      refused |-> CASE op = "Start" -> w.refused
                    [] op = "End" -> FALSE
                    [] OTHER -> hist.refused,
      snap |-> CASE phase = "" -> <<>>
                 [] phase = "pending" /\ hist.phase # "pending" ->
                      <<Snapshot(manager, dom)>>
                 [] OTHER -> hist.snap]

Apply(w, op) ==
  /\ inst.mounted
  /\ Len(w.tm.press) <= MaxTimers
  /\ Cardinality(w.d.helpers) <= MaxHelpers
  /\ w.em.n <= MaxEmitted
  /\ state' = w.st
  /\ inst' = w.ins
  /\ manager' = w.mgr
  /\ dom' = w.d
  /\ timers' = w.tm
  /\ emitted' = w.em
  /\ fault' = w.fault
  /\ hist' = NextHist(op, w)
  /\ UNCHANGED <<fixture, props, wrappers, moveCall>>

\* clears threw between two listeners of one event
Caught(w) == [w EXCEPT !.threw = FALSE]

\* the answers of the callbacks onSortHover and canSortDrop during one reflow
Hovers ==
  IF props.onSortHover THEN [NodesOf(fixture) -> BOOLEAN]
  ELSE {[k \in NodesOf(fixture) |-> FALSE]}

Drops ==
  CASE props.canSortDrop = "any" -> BOOLEAN
    [] props.canSortDrop = "never" -> {FALSE}
    [] OTHER -> {TRUE}

PointerEvents ==
  {[x |-> x, y |-> y, touches |-> fixture.touch] : x \in fixture.xs, y \in fixture.ys}

\* The start events: at fixture.start, on an item or outside the items, with
\* the left button on an allowed element, or with the right button, or on an
\* element shouldCancelStart refuses; inside a drag handle or not.
StartEvents ==
  LET ev(target, button, denied, inHandle) ==
        [x |-> fixture.start.x, y |-> fixture.start.y, touches |-> fixture.touch,
         button |-> button, denied |-> denied, target |-> target, inHandle |-> inHandle]
  IN {ev(t, 0, FALSE, h) : t \in fixture.targets \cup {NoNode},
                           h \in IF props.useDragHandle THEN BOOLEAN ELSE {TRUE}}
     \cup {ev(CHOOSE t \in fixture.targets : TRUE, 2, FALSE, TRUE),
           ev(CHOOSE t \in fixture.targets : TRUE, 0, TRUE, TRUE)}

\* a start event (mousedown, touchstart) on the container
Start ==
  /\ emitted.n < MaxEmitted
  /\ \E e \in StartEvents : Apply(handleStart(World, e), "Start")

\* the session's listeners, when handlePress added them and they are not removed
SortMoveListener(w, e, hover, allowed) ==
  IF w.ins.listening THEN handleSortMove(w, e, hover, allowed) ELSE w

SortEndListener(w) == IF w.ins.listening THEN handleSortEnd(w) ELSE w

\* a move event: the container's handleMove and, while a session listens,
\* handleSortMove (on the window after the container, on the node before it)
Move ==
  \E e \in PointerEvents, hover \in Hovers, allowed \in Drops :
    Apply(IF fixture.touch
          THEN handleMove(Caught(SortMoveListener(World, e, hover, allowed)), e)
          ELSE SortMoveListener(Caught(handleMove(World, e)), e, hover, allowed),
          "Move")

\* an end event: the container's handleEnd and, while a session listens,
\* handleSortEnd
End ==
  \E w \in {IF fixture.touch
            THEN handleEnd(Caught(SortEndListener(World)))
            ELSE SortEndListener(Caught(handleEnd(World)))} :
    Apply(w, "End")

\* the oldest press-delay timer fires (timers of one delay fire in order)
PressTimer ==
  /\ timers.press # <<>>
  /\ Apply(handlePress([World EXCEPT !.tm.press = Tail(@)], Head(timers.press).e, <<>>),
           "PressTimer")

\* the deferred cancel fires
CancelTimer ==
  /\ timers.cancel
  /\ Apply(cancel([World EXCEPT !.tm.cancel = FALSE]), "CancelTimer")

\* the autoscroll interval fires
AutoscrollTick ==
  /\ inst.autoscrollInterval # <<>>
  /\ hist.ticks < MaxTicks
  /\ \E hover \in Hovers, allowed \in Drops :
       Apply(autoscrollTick(World, hover, allowed), "AutoscrollTick")

\* The host drives the container itself (useCustomEvents): a press that
\* started in another container, the moves of a session, pause, and the end.
HostPress ==
  /\ props.useCustomEvents
  /\ ~state.sorting
  /\ emitted.n < MaxEmitted
  /\ \E e \in PointerEvents :
       Apply(handlePress(World, e, <<fixture.origin>>), "HostPress")

HostSortMove ==
  /\ props.useCustomEvents
  /\ state.sorting
  /\ \E e \in PointerEvents, hover \in Hovers, allowed \in Drops :
       Apply(handleSortMove(World, e, hover, allowed), "HostSortMove")

HostPause ==
  /\ props.useCustomEvents
  /\ Apply(pauseSortMove(World), "HostPause")

HostSortEnd ==
  /\ props.useCustomEvents
  /\ Apply(handleSortEnd(World), "HostSortEnd")

Next ==
  \/ Start
  \/ Move
  \/ End
  \/ PressTimer
  \/ CancelTimer
  \/ AutoscrollTick
  \/ HostPress
  \/ HostSortMove
  \/ HostPause
  \/ HostSortEnd

Spec == Init /\ [][Next]_vars

(***************************************************************************)
(* The item wrappers.  The container is mounted and idle; the host mounts   *)
(* two items, changes their props and unmounts them.  No wrapper is        *)
(* mounted at the start.                                                   *)
(***************************************************************************)
\* two items of 10 x 10 in a column
PairFx ==
  Fixture("column", <<10, 10>>, 10, 0, 1, Box(0, 0, 10, 20), ZeroTL,
          [x |-> 0, y |-> 0], {0}, {0}, {0, 1}, FALSE)

\* the props of an item: index, collection, disabled
ItemProps ==
  [index : NodesOf(PairFx), collection : Collections, disabled : BOOLEAN]

InitRegistry ==
  /\ fixture = PairFx
  /\ props = DefaultProps
  /\ state = [isOrigin |-> FALSE, sorting |-> FALSE]
  /\ inst = InstInit
  /\ manager = [refs |-> [col \in Collections |-> <<>>], active |-> <<>>]
  /\ dom = [nodes |-> [k \in NodesOf(PairFx) |-> NodeInit(PairFx, k, FALSE)],
            scroll |-> ZeroTL,
            helpers |-> {}]
  /\ timers = [press |-> <<>>, cancel |-> FALSE]
  /\ wrappers = [w |-> [k \in NodesOf(PairFx) |->
                          [mounted |-> "no",
                           props |-> [index |-> k, collection |-> 0, disabled |-> FALSE],
                           node |-> FALSE, ref |-> <<>>]],
                 nextRef |-> 0]
  /\ emitted = [n |-> 0, last |-> <<>>]
  /\ hist = HistInit
  /\ fault = ""
  /\ moveCall = NoCall

\* r is what a lifecycle method leaves: [ws, mgr, d]
ApplyWrapper(r) ==
  /\ r.ws.nextRef <= MaxRefs
  /\ wrappers' = r.ws
  /\ manager' = r.mgr
  /\ dom' = r.d
  /\ UNCHANGED <<fixture, props, state, inst, timers, emitted, hist, fault, moveCall>>

\* React mounts item k with props p
Mount ==
  \E k \in DOMAIN wrappers.w, p \in ItemProps :
    /\ wrappers.w[k].mounted = "no"
    /\ ApplyWrapper(componentDidMount(
         [wrappers EXCEPT !.w[k].mounted = "yes", !.w[k].props = p], manager, dom, k))

\* React renders item k with new props p
Update ==
  \E k \in DOMAIN wrappers.w, p \in ItemProps :
    /\ wrappers.w[k].mounted = "yes"
    /\ p # wrappers.w[k].props
    /\ ApplyWrapper(componentDidUpdate(
         [wrappers EXCEPT !.w[k].props = p], manager, dom, k, wrappers.w[k].props))

\* React unmounts item k
Unmount ==
  \E k \in DOMAIN wrappers.w :
    /\ wrappers.w[k].mounted = "yes"
    /\ ApplyWrapper(componentWillUnmount(
         [wrappers EXCEPT !.w[k].mounted = "gone"], manager, dom, k))

NextRegistry ==
  \/ Mount
  \/ Update
  \/ Unmount

SpecRegistry == InitRegistry /\ [][NextRegistry]_vars

(***************************************************************************)
(* Properties.                                                             *)
(***************************************************************************)
\* the sortableInfo.translate of node k
TranslateOf(k) == dom.nodes[k].info[1].translate

\* the items of the fixture are registered with index = node
Items == NodesOf(fixture)

\* the scroll container has not been scrolled since the session started
Unscrolled == dom.scroll = inst.initialScroll

\* C1: a step that ends an Active session (sorting becomes false: only
\* handleSortEnd does that) calls onSortEnd exactly once; driven by the DOM
\* events and the timers, onSortEnd is called by no other step; and the step
\* that cancels a Pending gesture calls nothing.
C1_CommitOnce ==
  [][/\ (state.sorting /\ ~state'.sorting) => emitted'.n = emitted.n + 1
     /\ (~props.useCustomEvents /\ emitted' # emitted) => (state.sorting /\ ~state'.sorting)
     /\ (hist'.phase = "cancelled") => emitted' = emitted]_vars

\* a gesture driven by DOM events was committed at another index
C1_Witness ==
  /\ ~props.useCustomEvents
  /\ emitted.n = 1
  /\ ~state.sorting
  /\ emitted.last[1].newIndex # emitted.last[1].oldIndex

\* C2: while canSortDrop answers false on every reflow, every item of the
\* collection has the translate (0, 0), after every reflow and in every other
\* state, and the commit of handleSortEnd carries newIndex = oldIndex.
C2_VetoKeepsOrder ==
  props.canSortDrop = "never" =>
    /\ \A k \in Items : TranslateOf(k) = Zero2
    /\ inst.newIndex = inst.index
    /\ emitted.last # <<>> => emitted.last[1].newIndex = emitted.last[1].oldIndex

\* a vetoed session was committed after item 0 was dragged over the others
C2_Witness ==
  /\ props.canSortDrop = "never"
  /\ emitted.n = 1
  /\ emitted.last[1].oldIndex = 0
  /\ inst.translate.y = 20

\* C3: right after cancel (or handleEnd) has ended a gesture that never
\* became Active, the registry (contents, order, cached edge offsets) and
\* every item's translate are what they were before the start, and the
\* active marker is null.
C3_CancelRestores ==
  hist.phase = "cancelled" =>
    /\ Snapshot(manager, dom) = hist.snap[1]
    /\ manager.active = <<>>

\* a Pending gesture with a move that scheduled the deferred cancel was
\* ended by the end event before that timer fired
C3_Witness ==
  /\ hist.phase = "cancelled"
  /\ timers.cancel
  /\ props.pressDelay > 0

\* C4: cancel() and handleSortEnd(), called while no session is active
\* (sorting false, manager.active null), raise no fault, change no state and
\* emit no commit.
C4_IdleNoOp ==
  [][(/\ ~state.sorting
      /\ manager.active = <<>>
      /\ fault = ""
      /\ (CancelTimer \/ HostSortEnd))
     => /\ fault' = ""
        /\ UNCHANGED <<state, inst, manager, dom, emitted>>]_vars

\* C5: at most one helper element of the container is in the document.
C5_OneHelper == Cardinality(dom.helpers) <= 1

\* the places (collection, position) where node k is registered
PlacesOf(k) ==
  UNION {{<<col, i>> : i \in {i \in DOMAIN manager.refs[col] :
                                manager.refs[col][i].node = k}} : col \in Collections}

\* C6: every element is registered in at most one collection, and at most
\* once in that collection.
C6_RegisteredOnce == \A k \in DOMAIN dom.nodes : Cardinality(PlacesOf(k)) <= 1

\* C7: with lockAxis 'x' the translate.y of an Active session is 0.
C7_LockedY ==
  (props.lockAxis = "x" /\ state.sorting) => inst.translate.y = 0

\* the edge offset of item k along the axis of a single-axis list
SlotOf(k) ==
  IF props.axis = "x" THEN getEdgeOffset(fixture, k).left
  ELSE getEdgeOffset(fixture, k).top

\* a translate of d along the axis of a single-axis list, 0 across
Along(d) == IF props.axis = "x" THEN [x |-> d, y |-> 0] ELSE [x |-> 0, y |-> d]

\* the session translate along the axis of a single-axis list
Dragged == IF props.axis = "x" THEN inst.translate.x ELSE inst.translate.y

\* the state right after a reflow of a session that started in this
\* container, on a single-axis list, the scroll container not scrolled
SingleAxisReflow ==
  /\ hist.reflowed
  /\ state.sorting
  /\ state.isOrigin
  /\ props.axis \in {"x", "y"}
  /\ props.canSortDrop = "none"
  /\ inst.index \in Items
  /\ Unscrolled

\* C8: on a single-axis list of equal items, after the reflow that finds
\* the dragged item i on the slot of an item j > i: newIndex is j, the items
\* of (i, j] are translated back by one slot (extent plus margin) and the
\* items outside [i, j] have the translate (0, 0).
C8_SlotReflow ==
  \A j \in Items :
    (/\ SingleAxisReflow
     /\ j > inst.index
     /\ Dragged = SlotOf(j) - SlotOf(inst.index))
    => /\ inst.newIndex = j
       /\ \A k \in Items :
            CASE k > inst.index /\ k <= j ->
                   TranslateOf(k) = Along(0 - (SlotOf(1) - SlotOf(0)))
              [] k < inst.index \/ k > j -> TranslateOf(k) = Zero2
              [] OTHER -> TRUE

\* item 0 of a list with margins was dragged onto the slot of item 2
C8_Witness ==
  /\ SingleAxisReflow
  /\ fixture.margin > 0
  /\ inst.index = 0
  /\ Dragged = SlotOf(2) - SlotOf(0)
  /\ TranslateOf(1) # Zero2

\* C9: on a single-axis list without margins, after the reflow that finds
\* the dragged item moved by less than one slot towards a neighbour, the
\* neighbour is translated exactly when the overlap is at least half of the
\* smaller of the two extents.
C9_Midpoint ==
  \A k \in Items :
    (/\ SingleAxisReflow
     /\ fixture.margin = 0
     /\ Dragged # 0
     /\ Abs(Dragged) < fixture.ext[k + 1]
     /\ k = inst.index + (IF Dragged > 0 THEN 1 ELSE 0 - 1))
    => ((TranslateOf(k) # Zero2) <=>
          (2 * Abs(Dragged) >= fixture.ext[k + 1]))

\* the state right after a reflow of a session that started in this
\* container, on a grid, the scroll container not scrolled
GridReflow ==
  /\ hist.reflowed
  /\ state.sorting
  /\ state.isOrigin
  /\ props.axis = "xy"
  /\ inst.index \in Items
  /\ Unscrolled

\* C10: on a grid, after a reflow, an item before the dragged index that is
\* pushed right has, in the last column of its row, the translate (next
\* item's offset minus its own offset) on both axes, and elsewhere the
\* translate (width plus horizontal margin, 0).
C10_GridWrap ==
  \A k \in Items :
    (GridReflow /\ k < inst.index /\ TranslateOf(k) # Zero2)
    => IF k % fixture.cols = fixture.cols - 1
       THEN TranslateOf(k) =
              [x |-> getEdgeOffset(fixture, k + 1).left - getEdgeOffset(fixture, k).left,
               y |-> getEdgeOffset(fixture, k + 1).top - getEdgeOffset(fixture, k).top]
       ELSE TranslateOf(k) =
              [x |-> OffsetWidth(fixture, k) + 2 * fixture.margin, y |-> 0]

\* the last step was a pointer move that ran updatePosition, animateNodes and
\* autoscroll to their end
Scrolled == state.sorting /\ hist.reflowed /\ hist.ticks = 0

\* the dragged element's extent along an axis
ExtentOn(a) == IF a = "x" THEN inst.width ELSE inst.height

\* what the scheduled interval adds per tick along an axis (speed * direction)
TickOffsetOn(a) ==
  IF a = "x" THEN inst.autoscrollInterval[1].left ELSE inst.autoscrollInterval[1].top

\* the translate is in the autoscroll zone of the max bound of an axis
NearMax(a) ==
  inst.axis[a] /\ inst.translate[a] >= inst.maxTranslate[a] - Half(ExtentOn(a))

\* the translate is strictly inside both autoscroll zones of every sort axis
InsideBounds ==
  \A a \in {"x", "y"} :
    inst.axis[a] =>
      /\ inst.translate[a] < inst.maxTranslate[a] - Half(ExtentOn(a))
      /\ inst.translate[a] > inst.minTranslate[a] + Half(ExtentOn(a))

\* C11: after a move, on every sort axis where the translate is within half
\* an extent of maxTranslate an interval is scheduled that scrolls in the
\* positive direction of that axis with a speed that is 0 at the boundary and
\* grows linearly with the distance past it; and when the translate is strictly
\* inside the bounds of every axis no interval is scheduled.
C11_AutoscrollMax ==
  Scrolled =>
    /\ \A a \in {"x", "y"} :
         NearMax(a) =>
           /\ inst.autoscrollInterval # <<>>
           /\ TickOffsetOn(a) =
                (acceleration
                   * (inst.translate[a] - (inst.maxTranslate[a] - Half(ExtentOn(a)))))
                \div ExtentOn(a)
    /\ InsideBounds => inst.autoscrollInterval = <<>>

\* C12: every commit carries an integer oldIndex and an integer newIndex,
\* never null, however the session was started and whether or not a reflow
\* ran before the end.
C12_IntegerIndices ==
  emitted.last # <<>> =>
    /\ emitted.last[1].oldIndex # NullIdx
    /\ emitted.last[1].newIndex # NullIdx

\* C13: a container whose props set both a non-zero distance and a non-zero
\* pressDelay fails in its constructor with an assertion; it is never mounted
\* and handles no event: nothing of the initial state ever changes.
C13_ExclusiveOptions ==
  (props.distance # 0 /\ props.pressDelay # 0) =>
    /\ fault = "Invariant Violation"
    /\ ~inst.mounted
    /\ ~state.sorting /\ manager.active = <<>> /\ timers.press = <<>> /\ ~timers.cancel
    /\ dom.helpers = {} /\ emitted.n = 0

\* the constructor refused props with distance 5 and pressDelay 200
C13_Witness ==
  props.distance = 5 /\ props.pressDelay = 200 /\ fault = "Invariant Violation"

\* the lockOffset prop is malformed: not one value or two, or a value that is
\* a string without the unit 'px' or '%', or that is not finite
Malformed(lockOffset) ==
  \/ lockOffset.isArray /\ Len(lockOffset.items) # 2
  \/ \E i \in DOMAIN lockOffset.items :
       \/ lockOffset.items[i].str /\ lockOffset.items[i].unit \notin {"px", "%"}
       \/ ~lockOffset.items[i].finite

\* C14: a container configured with a malformed lockOffset is rejected before
\* a drag session can become Active, whatever lockToContainerEdges is: it
\* never sorts and never commits.
C14_LockOffsetRejected ==
  Malformed(props.lockOffset) => ~state.sorting /\ emitted.n = 0

(***************************************************************************)
(* The host's reordering: arrayMove on an array of at most MaxLen values,  *)
(* then arrayMove back on what it returned.                                *)
(***************************************************************************)
Elements == {"a", "b", "c"}

Arrays == UNION {[1 .. n -> Elements] : n \in 0 .. MaxLen}

InitArrayMove ==
  /\ InitWith([props |-> DefaultProps, fx |-> PressFx])
  /\ \E arr \in Arrays : moveCall = [NoCall EXCEPT !.given = arr, !.arr = arr]

\* array = arrayMove(arr, previousIndex, newIndex); newIndex may be the length
ArrayMove ==
  /\ moveCall.array = <<>>
  /\ \E previousIndex \in 0 .. Len(moveCall.arr) - 1, newIndex \in 0 .. Len(moveCall.arr) :
       LET r == arrayMove(moveCall.arr, previousIndex, newIndex)
       IN moveCall' = [moveCall EXCEPT !.arr = r.arr, !.previousIndex = previousIndex,
                                       !.newIndex = newIndex, !.array = <<r.array>>]
  /\ UNCHANGED <<fixture, props, state, inst, manager, dom, timers, wrappers, emitted,
                 hist, fault>>

\* back = arrayMove(array, newIndex, previousIndex)
ArrayMoveBack ==
  /\ moveCall.array # <<>>
  /\ moveCall.back = <<>>
  /\ LET r == arrayMove(moveCall.array[1], moveCall.newIndex, moveCall.previousIndex)
     IN moveCall' = [moveCall EXCEPT !.array = <<r.arr>>, !.back = <<r.array>>]
  /\ UNCHANGED <<fixture, props, state, inst, manager, dom, timers, wrappers, emitted,
                 hist, fault>>

NextArrayMove == ArrayMove \/ ArrayMoveBack

SpecArrayMove == InitArrayMove /\ [][NextArrayMove]_vars

\* the array without position k (counted from 0)
Except(array, k) == SubSeq(array, 1, k) \o SubSeq(array, k + 2, Len(array))

\* C15: for indices inside the array, arrayMove returns an array of the same
\* length that holds arr[previousIndex] at newIndex and the other elements in
\* their order, leaves arr as it was given, and moving back gives arr again.
C15_ArrayMove ==
  (moveCall.array # <<>> /\ moveCall.newIndex < Len(moveCall.given)) =>
    LET arr == moveCall.given
        array == moveCall.array[1]
    IN /\ moveCall.arr = arr
       /\ Len(array) = Len(arr)
       /\ array[moveCall.newIndex + 1] = arr[moveCall.previousIndex + 1]
       /\ Except(array, moveCall.newIndex) = Except(arr, moveCall.previousIndex)
       /\ moveCall.back # <<>> => moveCall.back[1] = arr

\* <<a, b, c>> with its first element moved to the end, and moved back
C15_Witness ==
  /\ moveCall.given = <<"a", "b", "c">>
  /\ moveCall.previousIndex = 0 /\ moveCall.newIndex = 2
  /\ moveCall.array = << <<"b", "c", "a">> >>
  /\ moveCall.back = << <<"a", "b", "c">> >>

\* C16: in a container whose gestures wait in Pending (a press delay or a
\* distance), once a gesture has left Pending, to Active (handlePress) or
\* back to Idle (cancel, handleEnd), no press-delay timer and no deferred
\* cancel is still scheduled.
C16_TimersCleared ==
  ((props.pressDelay > 0 \/ props.distance > 0)
     /\ (state.sorting \/ hist.phase = "cancelled")) =>
    timers.press = <<>> /\ ~timers.cancel

\* C17: an autoscroll interval is scheduled only while the container sorts,
\* is not paused and has an active marker; so none is left after
\* handleSortEnd or pauseSortMove, and no tick runs while manager.active is
\* null.
C17_NoStrayInterval ==
  inst.autoscrollInterval # <<>> =>
    state.sorting /\ ~inst.paused /\ manager.active # <<>>

\* a session whose interval ticked has ended, and the interval is gone
C17_Witness ==
  /\ hist.ticks = 1 /\ ~state.sorting /\ emitted.n = 1
  /\ inst.autoscrollInterval = <<>>

\* a session whose interval ticked is paused, and the interval is gone
C17_PausedWitness ==
  /\ hist.ticks = 1 /\ state.sorting /\ inst.paused
  /\ inst.autoscrollInterval = <<>>

\* C18: with a press delay, a Pending gesture in which a move of
\* pressThreshold or more was handled does not become Active, whichever of
\* the press-delay timer and the deferred cancel fires first.
C18_NoLateActivation ==
  [][(props.pressDelay > 0 /\ hist.phase = "pending" /\ hist.crossed)
       => ~state'.sorting]_vars

\* C19: with useDragHandle, after a start event whose target is in no drag
\* handle the container does not sort and has no helper until the next end
\* event.
C19_HandleOnly ==
  hist.refused => ~state.sorting /\ inst.helper = <<>>

\* C20: the step that ends an Active session (handleSortEnd) leaves the
\* helper removed from the document and this.helper null, the ghost visible,
\* manager.active null, sorting false, no autoscroll interval, and every item
\* of the session's collection with translate (0,0), an empty transform and
\* no cached edge offset.
C20_SortEndResets ==
  [][(state.sorting /\ ~state'.sorting) =>
       LET collection == manager.active[1].collection
           refs == manager'.refs[collection]
       IN /\ inst'.helper = <<>>
          /\ inst.helper # <<>> => inst.helper[1] \notin dom'.helpers
          /\ \A k \in DOMAIN dom'.nodes : dom'.nodes[k].visibility = ""
          /\ inst'.sortableGhost = <<>>
          /\ manager'.active = <<>>
          /\ inst'.autoscrollInterval = <<>>
          /\ \A i \in DOMAIN refs :
               /\ refs[i].edgeOffset = <<>>
               /\ dom'.nodes[refs[i].node].info[1].translate = Zero2
               /\ dom'.nodes[refs[i].node].transform = <<>>]_vars

\* a container's own session that reordered the list has ended and left
\* nothing behind
C20_Witness ==
  /\ props.hideSortableGhost /\ ~props.useCustomEvents
  /\ emitted.n = 1 /\ emitted.last[1].newIndex # emitted.last[1].oldIndex
  /\ ~state.sorting /\ manager.active = <<>> /\ inst.helper = <<>>
  /\ \A k \in Items : TranslateOf(k) = Zero2 /\ dom.nodes[k].visibility = ""

\* sortableInfo.index of the item rendered in node k
IndexOfItem(k) == dom.nodes[k].info[1].index

\* the indices of the translated items before / after the dragged index
TranslatedBefore ==
  {IndexOfItem(k) : k \in {k \in Items : IndexOfItem(k) < inst.index /\ TranslateOf(k) # Zero2}}

TranslatedAfter ==
  {IndexOfItem(k) : k \in {k \in Items : IndexOfItem(k) > inst.index /\ TranslateOf(k) # Zero2}}

\* the step was a reflow that ran to its end in a container without canSortDrop
Reflowed == hist.reflowed /\ state.sorting /\ props.canSortDrop = "none"

\* C21: after a reflow without veto newIndex is not null; in a session of the
\* container's own item it is the origin index when no item is translated,
\* the lowest translated index when only items before the dragged index are
\* translated, and the highest translated index after the dragged index when
\* there is one.
C21_NewIndex ==
  Reflowed =>
    /\ inst.newIndex # NullIdx
    /\ state.isOrigin =>
         /\ (TranslatedBefore = {} /\ TranslatedAfter = {}) => inst.newIndex = inst.index
         /\ (TranslatedBefore # {} /\ TranslatedAfter = {}) =>
              \A i \in TranslatedBefore : inst.newIndex <= i /\ inst.newIndex \in TranslatedBefore
         /\ TranslatedAfter # {} =>
              \A i \in TranslatedAfter : inst.newIndex >= i /\ inst.newIndex \in TranslatedAfter

\* C22: a reflow that canSortDrop refuses, run by a pointer move or by an
\* autoscroll tick, leaves every item's translate (0,0) and newIndex equal to
\* the origin index, also when an earlier reflow of the session was allowed;
\* and the commit carries the newIndex the last reflow left.
C22_VetoEveryReflow ==
  [][/\ (state'.sorting /\ hist'.reflowed /\ hist'.vetoed) =>
          /\ inst'.newIndex = inst'.index
          /\ \A k \in Items : dom'.nodes[k].info[1].translate = Zero2
     /\ (state.sorting /\ ~state'.sorting /\ emitted'.n = emitted.n + 1) =>
          /\ emitted'.last[1].newIndex = inst.newIndex
          /\ emitted'.last[1].oldIndex = inst.index]_vars

\* an autoscroll tick's reflow was refused after an earlier reflow of the
\* session was allowed, with the helper two slots from its origin
C22_Witness ==
  /\ props.canSortDrop = "any" /\ state.sorting
  /\ hist.reflowed /\ hist.vetoed /\ hist.allowed /\ hist.ticks = 1
  /\ Abs(inst.translate.y) >= 20

\* C23: an autoscroll tick changes the scroll position of the container and
\* the session translate by the same amount on each axis, at every scroll
\* position including the limits of the scroll range.
C23_TickKeepsDifference ==
  [][(hist'.ticks = hist.ticks + 1) =>
       /\ inst'.translate.x - inst.translate.x = dom'.scroll.left - dom.scroll.left
       /\ inst'.translate.y - inst.translate.y = dom'.scroll.top - dom.scroll.top]_vars

(***************************************************************************)
(* C24                                                                     *)
(***************************************************************************)
\* the bounds updatePosition (601-622) clamps the translate to on an axis
LockMin == 
  [x |-> inst.minTranslate.x + (Half(inst.width) - getLockPixelOffsets(inst).min.x),
   y |-> inst.minTranslate.y + (Half(inst.height) - getLockPixelOffsets(inst).min.y)]

LockMax ==
  [x |-> inst.maxTranslate.x - (Half(inst.width) - getLockPixelOffsets(inst).max.x),
   y |-> inst.maxTranslate.y - (Half(inst.height) - getLockPixelOffsets(inst).max.y)]

\* an Active session with lockToContainerEdges whose translate has been set
Locked ==
  /\ state.sorting /\ hist.reflowed
  /\ props.lockToContainerEdges /\ getLockPixelOffsets(inst).ok

\* C24: with lockToContainerEdges the translate of an Active session lies, on
\* every enabled axis, between minTranslate + (size/2 - minLockOffset) and
\* maxTranslate - (size/2 - maxLockOffset)
C24_LockedToEdges ==
  Locked =>
    /\ inst.axis.x => inst.translate.x >= LockMin.x /\ inst.translate.x <= LockMax.x
    /\ inst.axis.y => inst.translate.y >= LockMin.y /\ inst.translate.y <= LockMax.y

(***************************************************************************)
(* C25                                                                     *)
(***************************************************************************)
\* C25: while sorting the manager's active marker is set, and a helper
\* element exists exactly while the container sorts a session it originated
C25_SessionState ==
  /\ state.sorting => manager.active # <<>>
  /\ (dom.helpers # {}) <=> (state.sorting /\ state.isOrigin)

(***************************************************************************)
(* C26, C27                                                                *)
(***************************************************************************)
\* C26: once an item wrapper is unmounted, no collection of the registry
\* holds a handle of its element
C26_UnmountedUnregistered ==
  \A k \in DOMAIN wrappers.w : wrappers.w[k].mounted = "gone" => PlacesOf(k) = {}

\* C27: an element is in the registry exactly while its wrapper is mounted
\* and its disabled prop is not true
C27_RegisteredIffEnabled ==
  \A k \in DOMAIN wrappers.w :
    (PlacesOf(k) # {}) <=> (wrappers.w[k].mounted = "yes" /\ ~wrappers.w[k].props.disabled)

(***************************************************************************)
(* C28                                                                     *)
(***************************************************************************)
\* what a reflow produces: every item's translate and this.newIndex
ReflowResult(w) ==
  [translate |-> [k \in Items |-> w.d.nodes[k].info[1].translate],
   newIndex |-> w.ins.newIndex]

\* the session as it is, with everything an earlier reflow wrote undone: the
\* translates, the cached edge offsets and newIndex
BeforeAnyReflow ==
  [World EXCEPT
     !.d.nodes = [k \in DOMAIN @ |-> [@[k] EXCEPT !.info[1].translate = Zero2]],
     !.mgr.refs = [col \in DOMAIN @ |->
                     [i \in DOMAIN @[col] |-> [@[col][i] EXCEPT !.edgeOffset = <<>>]]],
     !.ins.newIndex = NullIdx]

\* onSortHover's answers when no callback is registered
NoHover == [k \in NodesOf(fixture) |-> FALSE]

\* C28: without onSortHover the result of a reflow is determined by the
\* translate and the scroll position: it is what a first reflow of the
\* session computes from them, and a second reflow changes nothing
C28_ReflowIsFunction ==
  (Reflowed /\ ~props.onSortHover) =>
    /\ ReflowResult(World) = ReflowResult(animateNodes(BeforeAnyReflow, NoHover, TRUE))
    /\ ReflowResult(World) = ReflowResult(animateNodes(World, NoHover, TRUE))

\* a reflow after the list was scrolled by a tick, with an item shifted
C28_Witness ==
  /\ Reflowed /\ ~props.onSortHover
  /\ ~Unscrolled
  /\ \E k \in Items : TranslateOf(k) # Zero2

====
